---- MODULE Spec2Model ----
(***************************************************************************)
(* A model of clot, a command line argument tree: the builder              *)
(* (Clot::new / cmd / flag / field / run), the node chain (Help, Cmd) and  *)
(* the dispatch driver (Clot::execute / execute_with) with the help        *)
(* renderer (node::help).                                                  *)
(*                                                                         *)
(* Strings are sequences of one-character strings.  An OsStr is a sequence *)
(* of such units in which the unit BadByte stands for a byte sequence that *)
(* is not valid UTF-8.  An Option is a sequence of length at most one.     *)
(*                                                                         *)
(* A deferred constructor (the FnOnce of Cmd) is an opaque closure of the  *)
(* program's author: the declaration it evaluates is drawn when it is      *)
(* called.  It is called through Cell::take, so it yields at most one      *)
(* value in a run and drawing it at the call loses no behaviour.           *)
(***************************************************************************)
EXTENDS Integers, Sequences, FiniteSets, TLC

VARIABLES
    decl,     \* the root level as main declares it
    argv,     \* env::args_os() after the program name
    pos,      \* the cursor: how many elements of argv next() has yielded
    stack,    \* the active execute_with calls, root first
    out,      \* the lines printed so far
    handled,  \* the terminal handlers invoked so far, in order
    ctors,    \* the deferred constructors called so far, in order
    levels,   \* the values execute_with was called on so far, in order
    helps,    \* the calls of node::help so far, in order
    offered,  \* the arguments the loops of execute_with took so far, in order
    status,   \* "build", "run", "done" or "panic"
    panic     \* what panicked and where, once status = "panic"

vars == <<decl, argv, pos, stack, out, handled, ctors, levels, helps, offered,
          status, panic>>

(***************************** bounds **************************************)

\* commands declared in the tree, over all the levels a run constructs
MaxCmds == 2
\* arguments after the program name
MaxArgs == 2
\* length of a command name offered to cmd() in SpecName
MaxNameLen == 7
\* calls of node::help on one value in SpecRender
MaxRenders == 2

(***************************** text ****************************************)

None == <<>>
Some(x) == <<x>>

Lower == {"a", "b", "c", "d", "e", "f", "g", "h", "i", "j", "k", "l", "m",
          "n", "o", "p", "q", "r", "s", "t", "u", "v", "w", "x", "y", "z"}

\* a unit of an OsStr that is not part of any valid UTF-8 text
BadByte == "\\xFF"

SeqsUpTo(S, n) == UNION {[1..k -> S] : k \in 0..n}

Str_help == <<"h", "e", "l", "p">>
Str_dashdash == <<"-", "-">>
Str_dashdashhelp == Str_dashdash \o Str_help
Str_prog == <<"p", "r", "o", "g">>

\* OsStr::to_str: the text, when every unit is valid UTF-8
to_str(os) ==
    IF \E i \in DOMAIN os : os[i] = BadByte THEN None ELSE Some(os)

\* str::strip_prefix
strip_prefix(s, p) ==
    IF Len(s) >= Len(p) /\ SubSeq(s, 1, Len(p)) = p
    THEN Some(SubSeq(s, Len(p) + 1, Len(s)))
    ELSE None

starts_with(s, c) == Len(s) > 0 /\ s[1] = c

ends_with(s, c) == Len(s) > 0 /\ s[Len(s)] = c

\* str::split_terminator(c).count(): the pieces between the separators,
\* without the last piece when it is empty
split_terminator_count(s, c) ==
    LET seps == Cardinality({i \in DOMAIN s : s[i] = c})
    IN  IF s = <<>> \/ ends_with(s, c) THEN seps ELSE seps + 1

(***************************** builder *************************************)

\* the closure invalid_char of Clot::cmd
invalid_char(c) == (c \notin Lower) /\ c # "-"

\* the four assertions of Clot::cmd all pass
cmd_accepts(name) ==
    /\ ~ \E i \in DOMAIN name : invalid_char(name[i])
    /\ split_terminator_count(name, "-") <= 3
    /\ ~ starts_with(name, "-")
    /\ ~ ends_with(name, "-")

\* Clot::flag does not panic
flag_accepts(flag) == flag \in Lower

(***************************** declarations ********************************)

\* command names the author declares: two well-formed names, the reserved
\* word, and a name cmd() rejects
Names == {<<"a">>, <<"a", "-", "b">>, Str_help, <<"A">>}

\* flag characters the author declares: one flag() accepts, one it rejects
FlagChars == {"v", "V"}

\* the arguments a user types
Tokens == {<<"a">>, <<"a", "-", "b">>, Str_help, Str_dashdashhelp, <<BadByte>>,
           <<"-", "v">>}

\* One level as the author declares it: Clot::new(help), then at most one
\* flag(c), field() or not, cmd(name, f) for each name in order, run(h) or
\* not.  The help text and the handler of a level are identified with the
\* level's position in the tree (the indices of the commands leading to it).
\* n bounds the number of commands the level declares.
Decls(n) ==
    [cmds : SeqsUpTo(Names, n),
     run : BOOLEAN,
     flag : {None} \cup {Some(c) : c \in FlagChars},
     field : BOOLEAN]

\* construct, had Clot::cmd built the node without its assertions
construct_unchecked(d, path) ==
    IF d.flag # None /\ ~ flag_accepts(d.flag[1])
    THEN [ok |-> FALSE, kind |-> "flag", bad |-> d.flag, clot |-> None]
    ELSE [ok |-> TRUE, kind |-> "", bad |-> <<>>,
          clot |-> Some([opts |-> [help |-> path,
                                   cmds |-> d.cmds,
                                   f |-> [i \in DOMAIN d.cmds |-> TRUE]],
                         cmd_fn |-> IF d.run THEN Some(path) ELSE None])]

\* The value the builder calls of declaration d produce for the level at
\* path: Clot { opts: Cmd(... Cmd(Help(help), n1, f1) ..., nk, fk), cmd_fn },
\* or the assertion that fails.  field() and flag(c) return self unchanged.
construct(d, path) ==
    IF d.flag # None /\ ~ flag_accepts(d.flag[1])
    THEN [ok |-> FALSE, kind |-> "flag", bad |-> d.flag, clot |-> None]
    ELSE IF \E i \in DOMAIN d.cmds : ~ cmd_accepts(d.cmds[i])
    THEN [ok |-> FALSE, kind |-> "cmd", clot |-> None,
          bad |-> d.cmds[CHOOSE i \in DOMAIN d.cmds :
                           /\ ~ cmd_accepts(d.cmds[i])
                           /\ \A j \in 1..(i - 1) : cmd_accepts(d.cmds[j])]]
    ELSE [ok |-> TRUE, kind |-> "", bad |-> <<>>,
          clot |-> Some([opts |-> [help |-> path,
                                   cmds |-> d.cmds,
                                   f |-> [i \in DOMAIN d.cmds |-> TRUE]],
                         cmd_fn |-> IF d.run THEN Some(path) ELSE None])]

\* whether a call of a deferred constructor returns (TRUE) or panics in
\* one of the builder's assertions (FALSE)
CtorOutcomes == {construct(d, <<>>).ok : d \in Decls(MaxCmds)}

(***************************** node chain **********************************)
\* opts is the chain Help <- Cmd 1 <- ... <- Cmd n, oldest first; the node
\* k of the chain is Cmd k, and node 0 is Help.

RECURSIVE has_fields(_, _)
has_fields(opts, k) == IF k = 0 THEN FALSE ELSE has_fields(opts, k - 1)

RECURSIVE has_flags(_, _)
has_flags(opts, k) == IF k = 0 THEN FALSE ELSE has_flags(opts, k - 1)

RECURSIVE has_params(_, _)
has_params(opts, k) == IF k = 0 THEN FALSE ELSE has_params(opts, k - 1)

RECURSIVE get_help_text(_, _)
get_help_text(opts, k) ==
    IF k = 0 THEN opts.help ELSE get_help_text(opts, k - 1)

\* is_help, had it taken a token that is not valid text for a help request
is_help_or_invalid(what, has_f) ==
    \/ to_str(what) = None
    \/ IF has_f
       THEN to_str(what) = Some(Str_dashdashhelp)
       ELSE to_str(what) \in {Some(Str_help), Some(Str_dashdashhelp)}

is_help(what, has_f) ==
    IF has_f
    THEN to_str(what) = Some(Str_dashdashhelp)
    ELSE to_str(what) \in {Some(Str_help), Some(Str_dashdashhelp)}

\* cmd_matches, had Cmd::branch stripped "--" at every level
cmd_matches_stripped(what, has_f, name) ==
    IF to_str(what) = None
    THEN FALSE
    ELSE strip_prefix(what, Str_dashdash) = Some(name)

\* the comparison of Cmd::branch: the token, stripped of "--" at a level
\* with fields, equals the command's name
cmd_matches(what, has_f, name) ==
    IF to_str(what) = None
    THEN FALSE
    ELSE LET w == IF has_f THEN strip_prefix(what, Str_dashdash)
                  ELSE Some(what)
         IN  w = Some(name)

\* branch, had Cmd::branch compared its own name before asking the
\* previous node
RECURSIVE branch_newest_first(_, _, _, _)
branch_newest_first(opts, k, what, has_f) ==
    IF k = 0
    THEN 0
    ELSE IF cmd_matches(what, has_f, opts.cmds[k]) THEN k
    ELSE branch_newest_first(opts, k - 1, what, has_f)

\* Node::branch on node k: 0 when the result is Branch::Help (no command
\* of nodes 0..k matched), else the index of the command that was entered
\* (the result is Branch::Done).  The previous node is asked first.
RECURSIVE branch(_, _, _, _)
branch(opts, k, what, has_f) ==
    IF k = 0
    THEN 0
    ELSE LET prev == branch(opts, k - 1, what, has_f)
         IN  IF prev # 0 THEN prev
             ELSE IF cmd_matches(what, has_f, opts.cmds[k]) THEN k
             ELSE 0

\* branch_args, had Help::branch taken an argument off the cursor before
\* handing it back
RECURSIVE branch_args_taking(_, _, _, _, _)
branch_args_taking(opts, k, what, has_f, args) ==
    IF k = 0
    THEN args + 1
    ELSE branch_args_taking(opts, k - 1, what, has_f, args)

\* The cursor that leaves Node::branch on node k when it is given the
\* cursor args: the one in Branch::Help(args) handed back to execute_with,
\* or the one moved into execute_with of the command that was entered.
\* Help::branch hands back what it is given; Cmd::branch gives its cursor to
\* the previous node and goes on with the one that comes back.
RECURSIVE branch_args(_, _, _, _, _)
branch_args(opts, k, what, has_f, args) ==
    IF k = 0
    THEN args
    ELSE branch_args(opts, k - 1, what, has_f, args)

\* Opts::flag(c) as a terminal handler reads it from its view of the level
Opts_flag(opts, c) == FALSE

Line(k, v) == [k |-> k, v |-> v]

\* Node::help_cmds on node k.  oks[i] tells whether the constructor of
\* command i returns.  Cmd k takes and calls its constructor, then lets the
\* previous node print, then prints its own entry.
RECURSIVE help_cmds(_, _, _, _, _)
help_cmds(opts, f, k, oks, has_f) ==
    IF k = 0
    THEN [f |-> f, called |-> <<>>, panic |-> "",
          lines |-> <<Line(IF has_f THEN "--help" ELSE "help, --help", <<>>)>>]
    ELSE IF ~ f[k]
    THEN [f |-> f, called |-> <<>>, panic |-> "unwrap", lines |-> <<>>]
    ELSE IF ~ oks[k]
    THEN [f |-> [f EXCEPT ![k] = FALSE], called |-> <<k>>,
          panic |-> "assert", lines |-> <<>>]
    ELSE LET r == help_cmds(opts, [f EXCEPT ![k] = FALSE], k - 1, oks, has_f)
             shown == IF has_f THEN Str_dashdash \o opts.cmds[k]
                      ELSE opts.cmds[k]
         IN  [f |-> r.f, called |-> <<k>> \o r.called, panic |-> r.panic,
              lines |-> IF r.panic # "" THEN <<>>
                        ELSE Append(r.lines,
                                    Line("cmd", <<shown, Append(opts.help, k)>>))]

\* node::help: what it prints and which constructors it consumes
help(opts, name, has_f, oks) ==
    LET n == Len(opts.cmds)
        head == <<Line("text", get_help_text(opts, n))>>
                \o (IF has_f THEN <<Line("options", name)>> ELSE <<>>)
                \o <<Line("usage", name)>>
                \o <<Line("Commands:", <<>>)>>
        r == help_cmds(opts, opts.f, n, oks, has_f)
    IN  [f |-> r.f, called |-> r.called, panic |-> r.panic,
         lines |-> IF r.panic # "" THEN head
                   ELSE head \o r.lines \o <<Line("", <<>>)>>]

\* unexpected(name, arg)
unexpected(name, arg) == <<Line("error", arg), Line("try", name)>>

(***************************** driver **************************************)

NoPanic == [kind |-> "", phase |-> "", level |-> <<>>, pos |-> 0, bad |-> <<>>]

\* a call of execute_with: self, name and args (the cursor it is given, as
\* the number of arguments taken before it)
Frame(clot, name, args) ==
    [opts |-> clot.opts, cmd_fn |-> clot.cmd_fn, name |-> name, args |-> args,
     pc |-> "entry"]

top == stack[Len(stack)]

SetTop(fr) == [stack EXCEPT ![Len(stack)] = fr]

\* the number of commands the levels on the stack declare
RECURSIVE Declared(_)
Declared(st) ==
    IF st = <<>> THEN 0 ELSE Len(Head(st).opts.cmds) + Declared(Tail(st))

Panics(kind, phase, at, bad) ==
    /\ status' = "panic"
    /\ panic' = [kind |-> kind, phase |-> phase, level |-> top.opts.help,
                 pos |-> at, bad |-> bad]

\* a call of node::help on the top level, with the outcomes oks of the
\* constructors it calls; then is the top frame's next position and tail
\* is what execute_with prints after help returned
Renders(oks, at, then, tail) ==
    LET has_f == has_fields(top.opts, Len(top.opts.cmds))
        r == help(top.opts, top.name, has_f, oks)
    IN  /\ out' = out \o r.lines \o (IF r.panic = "" THEN tail ELSE <<>>)
        /\ helps' = Append(helps, [level |-> top.opts.help, lines |-> r.lines,
                                   whole |-> r.panic = ""])
        /\ ctors' = ctors \o [i \in DOMAIN r.called |->
                                Append(top.opts.help, r.called[i])]
        /\ IF r.panic # ""
           THEN /\ Panics(r.panic, "help", at, <<>>)
                /\ stack' = SetTop([top EXCEPT !.opts.f = r.f])
           ELSE /\ stack' = SetTop([top EXCEPT !.opts.f = r.f, !.pc = then])
                /\ UNCHANGED <<status, panic>>

\* the start of the process, main declaring a level of D and the user
\* typing arguments of A
Starts(D, A) ==
    /\ decl \in D
    /\ argv \in A
    /\ pos = 0
    /\ stack = <<>>
    /\ out = <<>>
    /\ handled = <<>>
    /\ ctors = <<>>
    /\ levels = <<>>
    /\ helps = <<>>
    /\ offered = <<>>
    /\ status = "build"
    /\ panic = NoPanic

Init == Starts(Decls(MaxCmds), SeqsUpTo(Tokens, MaxArgs))

\* main: the builder calls of the root level, then Clot::execute, which
\* takes the program name off the arguments and calls execute_with
Build ==
    LET r == construct(decl, <<>>)
    IN  /\ status = "build"
        /\ IF r.ok
           THEN /\ status' = "run"
                /\ stack' = <<Frame(r.clot[1], Str_prog, 0)>>
                /\ levels' = <<Frame(r.clot[1], Str_prog, 0)>>
                /\ panic' = panic
           ELSE /\ status' = "panic"
                /\ panic' = [kind |-> r.kind, phase |-> "build",
                             level |-> <<>>, pos |-> 0, bad |-> r.bad]
                /\ UNCHANGED <<stack, levels>>
        /\ UNCHANGED <<decl, argv, pos, out, handled, ctors, helps, offered>>

\* shows_help_at_entry, had execute_with not looked at the handler
shows_help_without_args(no_args, cmd_fn) == no_args

\* shows_help_at_entry, had execute_with not looked at the arguments
shows_help_without_handler(no_args, cmd_fn) == cmd_fn = None

\* the condition of execute_with for help before the loop: no argument is
\* left and the level has no handler
shows_help_at_entry(no_args, cmd_fn) == no_args /\ cmd_fn = None

\* execute_with, before the loop
ExecuteEnter ==
    /\ status = "run"
    /\ top.pc = "entry"
    /\ IF shows_help_at_entry(pos = Len(argv), top.cmd_fn)
       THEN \E oks \in [DOMAIN top.opts.cmds -> CtorOutcomes] :
              Renders(oks, pos, "loop", <<>>)
       ELSE /\ stack' = SetTop([top EXCEPT !.pc = "loop"])
            /\ UNCHANGED <<out, ctors, helps, status, panic>>
    /\ UNCHANGED <<decl, argv, pos, handled, levels, offered>>

\* the loop of execute_with finds no argument left
LoopEnd ==
    /\ status = "run"
    /\ top.pc = "loop"
    /\ pos = Len(argv)
    /\ stack' = SetTop([top EXCEPT !.pc = "after"])
    /\ UNCHANGED <<decl, argv, pos, out, handled, ctors, levels, helps, offered,
                   status, panic>>

\* after_help, had execute_with left the loop with break
after_help_break == "after"

\* where execute_with goes on after maybe_help returned true: it returns
after_help == "ret"

\* next_arg, had the loop looked at the argument with peek()
peek_arg(at) == at

\* the cursor after args.next() took the argument at pos + 1
next_arg(at) == at + 1

\* Takes(at): the loop of the top level took the argument at
Takes(at) == offered' = Append(offered, [level |-> top.opts.help, at |-> at])

\* dont_print, had execute_with always let maybe_help print
dont_print_never(follows) == FALSE

\* the dont_print execute_with gives maybe_help: args.peek().is_some()
dont_print(follows) == follows

\* the loop takes a help token: maybe_help prints help unless an argument
\* follows, the argument that follows is reported, execute_with returns
LoopHelp ==
    /\ status = "run"
    /\ top.pc = "loop"
    /\ pos < Len(argv)
    /\ is_help(argv[pos + 1], has_fields(top.opts, Len(top.opts.cmds)))
    /\ Takes(pos + 1)
    /\ LET args == next_arg(pos)
           follows == args < Len(argv)
           tail == IF follows THEN unexpected(top.name, argv[args + 1])
                   ELSE <<>>
       IN  /\ pos' = IF follows THEN next_arg(args) ELSE args
           /\ IF dont_print(follows)
              THEN /\ out' = out \o tail
                   /\ stack' = SetTop([top EXCEPT !.pc = after_help])
                   /\ UNCHANGED <<ctors, helps, status, panic>>
              ELSE \E oks \in [DOMAIN top.opts.cmds -> CtorOutcomes] :
                     Renders(oks, pos + 1, after_help, tail)
    /\ UNCHANGED <<decl, argv, handled, levels>>

\* Cmd::branch has matched command m: it takes and calls the command's
\* constructor, which evaluates declaration d, and calls execute_with on
\* the value with the command's name and the rest of the arguments
Enters(m, d) ==
    LET id == Append(top.opts.help, m)
        r == construct(d, id)
        has_f == has_fields(top.opts, Len(top.opts.cmds))
        args == branch_args(top.opts, m, argv[pos + 1], has_f, next_arg(pos))
        waiting == [top EXCEPT !.opts.f[m] = FALSE, !.pc = "branch"]
    IN  IF ~ top.opts.f[m]
        THEN /\ Panics("unwrap", "dispatch", pos + 1, <<>>)
             /\ UNCHANGED <<stack, ctors, levels>>
        ELSE /\ ctors' = Append(ctors, id)
             /\ IF r.ok
                THEN /\ stack' = Append(SetTop(waiting),
                                        Frame(r.clot[1], top.opts.cmds[m], args))
                     /\ levels' = Append(levels,
                                         Frame(r.clot[1], top.opts.cmds[m], args))
                     /\ UNCHANGED <<status, panic>>
                ELSE /\ Panics(r.kind, "dispatch", pos + 1, r.bad)
                     /\ stack' = SetTop(waiting)
                     /\ levels' = levels

\* the loop takes the name of a command
LoopBranch ==
    /\ status = "run"
    /\ top.pc = "loop"
    /\ pos < Len(argv)
    /\ LET arg == argv[pos + 1]
           has_f == has_fields(top.opts, Len(top.opts.cmds))
           m == branch(top.opts, Len(top.opts.cmds), arg, has_f)
       IN  /\ ~ is_help(arg, has_f)
           /\ m # 0
           /\ \E d \in Decls(MaxCmds - Declared(stack)) : Enters(m, d)
           /\ pos' = branch_args(top.opts, m, arg, has_f, next_arg(pos))
    /\ Takes(pos + 1)
    /\ UNCHANGED <<decl, argv, out, handled, helps>>

\* after_unexpected, had execute_with gone on with the next argument
after_unexpected_continue == "loop"

\* where execute_with goes on after unexpected(name, arg) in the loop:
\* break leaves the loop for the code after it
after_unexpected == "after"

\* the loop takes any other argument: it is reported and the loop is left
LoopUnexpected ==
    /\ status = "run"
    /\ top.pc = "loop"
    /\ pos < Len(argv)
    /\ LET arg == argv[pos + 1]
           has_f == has_fields(top.opts, Len(top.opts.cmds))
       IN  /\ ~ is_help(arg, has_f)
           /\ branch(top.opts, Len(top.opts.cmds), arg, has_f) = 0
           /\ out' = out \o unexpected(top.name, arg)
           /\ pos' = branch_args(top.opts, Len(top.opts.cmds), arg, has_f,
                                 next_arg(pos))
    /\ Takes(pos + 1)
    /\ stack' = SetTop([top EXCEPT !.pc = after_unexpected])
    /\ UNCHANGED <<decl, argv, handled, ctors, levels, helps, status, panic>>

\* after the loop: the level's handler, when it has one
Finish ==
    /\ status = "run"
    /\ top.pc = "after"
    /\ handled' = IF top.cmd_fn # None THEN Append(handled, top.cmd_fn[1])
                  ELSE handled
    /\ stack' = SetTop([top EXCEPT !.pc = "ret"])
    /\ UNCHANGED <<decl, argv, pos, out, ctors, levels, helps, offered, status, panic>>

\* after_done, had execute_with left the loop with break on Branch::Done
after_done_break == "after"

\* after_done, had execute_with gone on with the next argument on
\* Branch::Done, as it does on Branch::Skip
after_done_continue == "loop"

\* where the execute_with above goes on when Cmd::branch gives it
\* Branch::Done: it returns
after_done == "ret"

\* execute_with returns: to Cmd::branch of the level above, which returns
\* Branch::Done to its own execute_with; or to main
Return ==
    /\ status = "run"
    /\ top.pc = "ret"
    /\ IF Len(stack) = 1
       THEN /\ stack' = <<>>
            /\ status' = "done"
       ELSE /\ stack' = [SubSeq(stack, 1, Len(stack) - 1)
                           EXCEPT ![Len(stack) - 1].pc = after_done]
            /\ status' = status
    /\ UNCHANGED <<decl, argv, pos, out, handled, ctors, levels, helps, offered, panic>>

Next ==
    \/ Build
    \/ ExecuteEnter
    \/ LoopEnd
    \/ LoopHelp
    \/ LoopBranch
    \/ LoopUnexpected
    \/ Finish
    \/ Return

Spec == Init /\ [][Next]_vars

(***************************** runs to completion **************************)
\* The process is one thread that takes its next step as long as it has
\* one.  The arguments are one of each kind the loop tells apart: a command
\* name, a help request and an argument that is neither.

LiveTokens == {<<"a">>, Str_help, <<BadByte>>}

InitLive == Starts(Decls(MaxCmds), SeqsUpTo(LiveTokens, MaxArgs))

SpecLive == InitLive /\ [][Next]_vars /\ WF_vars(Next)

(***************************** cmd() alone *********************************)
\* Clot::new(help).cmd(name, f) for every name over NameChars, up to
\* MaxNameLen characters

NameChars == {"a", "-", "A", "1"}

InitName ==
    Starts({[cmds |-> <<name>>, run |-> FALSE, flag |-> None, field |-> FALSE] :
              name \in SeqsUpTo(NameChars, MaxNameLen)},
           {<<>>})

NextName == Build

SpecName == InitName /\ [][NextName]_vars

(***************************** node::help alone ****************************)
\* node::help called up to MaxRenders times on the chain of one value

InitRender == Starts(Decls(MaxCmds), {<<>>})

Render ==
    /\ status = "run"
    /\ top.pc = "entry"
    /\ Len(helps) < MaxRenders
    /\ \E oks \in [DOMAIN top.opts.cmds -> CtorOutcomes] :
         Renders(oks, pos, "entry", <<>>)
    /\ UNCHANGED <<decl, argv, pos, handled, levels, offered>>

NextRender == Build \/ Render

SpecRender == InitRender /\ [][NextRender]_vars


(***************************** claims **************************************)

\* the error lines printed so far
Errors == SelectSeq(out, LAMBDA l : l.k = "error")

\* level i was offered the argument i: every level takes one argument
\* before the level below it is entered
Offered(i) == 1 <= i /\ i <= Len(levels) /\ i <= pos

\* the commands of level i whose name is the text t
Named(i, t) == {k \in DOMAIN levels[i].opts.cmds : levels[i].opts.cmds[k] = t}

\* the level the run ended on
last == levels[Len(levels)]

Ended == status \in {"done", "panic"}

\* the root declares one command and the arguments are that command's name
SingleCommandRun ==
    /\ levels # <<>>
    /\ Len(levels[1].opts.cmds) = 1
    /\ argv = <<levels[1].opts.cmds[1]>>

\* the run entered the subtree of the root's command 1 and invoked the
\* handler registered there, if any, once, and nothing else
RanSubtreeOnly ==
    /\ Len(levels) = 2
    /\ levels[2].opts.help = <<1>>
    /\ handled = IF levels[2].cmd_fn # None THEN <<levels[2].cmd_fn[1]>>
                 ELSE <<>>
    /\ Errors = <<>>

\* C1, as claimed: for every command name cmd() accepts, a root declaring
\* that one command, run with the name as the only argument, invokes the
\* handler of the command's subtree exactly once and no other handler.
C1_AnyNameDispatches == status = "done" /\ SingleCommandRun => RanSubtreeOnly

\* C1, amended: the same for every accepted command name other than `help`.
C1_NameDispatches ==
    status = "done" /\ SingleCommandRun /\ argv[1] # Str_help => RanSubtreeOnly

C1_Witness ==
    /\ status = "done"
    /\ SingleCommandRun
    /\ argv = << <<"a", "-", "b">> >>
    /\ levels[1].cmd_fn # None
    /\ handled = << <<1>> >>

\* C2, as claimed: when a level is offered a token that is neither a help
\* token nor the name of one of its commands, an unexpected-argument error
\* naming the token is printed and no handler is invoked in the whole run,
\* the handler of that level included.
C2_UnexpectedRunsNoHandler ==
    \A i \in 1..Len(levels) :
        /\ Offered(i)
        /\ ~ is_help(argv[i], FALSE)
        /\ Named(i, argv[i]) = {}
        => /\ Errors = <<Line("error", argv[i])>>
           /\ handled = <<>>


\* the run ended on a level that was offered a help token
HelpOffered ==
    /\ Ended
    /\ Offered(Len(levels))
    /\ is_help(argv[Len(levels)], FALSE)

\* the output starts with the description of the last level, followed by
\* the usage line
DescriptionThenUsage ==
    /\ Len(out) >= 2
    /\ out[1] = Line("text", last.opts.help)
    /\ out[2].k = "usage"

\* C3, as claimed: a help token offered at a level prints the level's
\* description before the usage synopsis and the level's handler is never
\* invoked, whatever tokens follow.
C3_HelpAlwaysPrints ==
    HelpOffered => DescriptionThenUsage /\ handled = <<>>

\* C3, amended: a help token offered at a level with no token after it
\* prints the level's description before the usage synopsis; with or
\* without tokens after it, no handler is invoked.
C3_HelpPrints ==
    HelpOffered =>
        /\ handled = <<>>
        /\ Len(argv) = Len(levels) =>
              /\ DescriptionThenUsage
              /\ Len(helps) = 1
              /\ helps[1].level = last.opts.help

C3_Witness ==
    /\ status = "done"
    /\ HelpOffered
    /\ Len(levels) = 2
    /\ argv[2] = Str_help
    /\ last.cmd_fn # None
    /\ DescriptionThenUsage

\* the tokens 1..n each name a command of the level they are offered to
ChainDeclared(n) ==
    \A i \in 1..n : i <= Len(levels) /\ Named(i, argv[i]) # {}

\* a level that entered a command has invoked no handler of its own and
\* rendered no help
AncestorsSilent ==
    \A i \in 1..(Len(levels) - 1) :
        /\ \A j \in DOMAIN handled : handled[j] # levels[i].opts.help
        /\ \A j \in DOMAIN helps : helps[j].level # levels[i].opts.help

\* the run ended in the handler of the level below the last token, if that
\* level registers one, and in no other
EndedInLeaf ==
    /\ Len(levels) = Len(argv) + 1
    /\ handled = IF last.cmd_fn # None THEN <<last.cmd_fn[1]>> ELSE <<>>
    /\ Errors = <<>>

\* the run reported the last token, at the level below the token before it
ReportedLast ==
    /\ Len(levels) = Len(argv)
    /\ Errors = <<Line("error", argv[Len(argv)])>>

\* the last token is neither a help token nor a command of its level
LastIsBogus ==
    /\ argv # <<>>
    /\ ChainDeclared(Len(argv) - 1)
    /\ Len(levels) >= Len(argv)
    /\ ~ is_help(argv[Len(argv)], FALSE)
    /\ Named(Len(argv), argv[Len(argv)]) = {}

\* C4, as claimed: for any chain of nested commands c1 .. cn the tokens
\* [c1, .., cn] end in the handler of the cn level and in no other, a level
\* whose branch returned Done and its ancestors invoke no handler, render
\* no help and report no error, and [c1, .., c(n-1), bogus] reports bogus.
C4_AnyChainEndsInLeaf ==
    /\ AncestorsSilent
    /\ status = "done" /\ ChainDeclared(Len(argv)) => EndedInLeaf
    /\ status = "done" /\ LastIsBogus => ReportedLast

\* C4, amended: the same for chains in which no command is named `help`.
C4_ChainEndsInLeaf ==
    /\ AncestorsSilent
    /\ status = "done" /\ ChainDeclared(Len(argv))
         /\ (\A i \in DOMAIN argv : argv[i] # Str_help) => EndedInLeaf
    /\ status = "done" /\ LastIsBogus
         /\ (\A i \in DOMAIN argv : argv[i] # Str_help) => ReportedLast

C4_Witness ==
    /\ status = "done"
    /\ Len(argv) = 2
    /\ Len(levels) = 3
    /\ \A i \in 1..3 : levels[i].cmd_fn # None
    /\ handled = << <<1, 1>> >>

\* C5: a level reached with no argument left invokes its handler exactly
\* once and renders no help when it has a handler, and otherwise renders
\* its help exactly once, reports no error and invokes no handler.
C5_EmptyCursor ==
    Ended /\ Len(levels) = Len(argv) + 1 =>
        IF last.cmd_fn # None
        THEN /\ status = "done"
             /\ handled = <<last.cmd_fn[1]>>
             /\ helps = <<>>
        ELSE /\ Len(helps) = 1
             /\ helps[1].level = last.opts.help
             /\ status = "done" => helps[1].whole
             /\ Errors = <<>>
             /\ handled = <<>>

C5_Witness ==
    /\ status = "done"
    /\ Len(levels) = 2
    /\ Len(argv) = 1
    /\ last.cmd_fn = None
    /\ Len(last.opts.cmds) = 1
    /\ Len(helps) = 1
    /\ helps[1].whole


\* C6: in a run each deferred constructor is called at most once, by
\* dispatch and help rendering together, and the unwrap of a constructor
\* already taken is never reached.
C6_ConstructorOnce ==
    /\ \A i, j \in DOMAIN ctors : i # j => ctors[i] # ctors[j]
    /\ ~ (status = "panic" /\ panic.kind = "unwrap")

C6_Witness ==
    /\ status = "done"
    /\ Len(levels) = 2
    /\ Len(helps) = 1
    /\ ctors = << <<1>>, <<1, 1>> >>

\* C7, as claimed: node::help called twice on the same chain prints the
\* same lines both times and consumes no state of the chain.
C7_HelpIdempotent ==
    /\ helps # <<>> /\ stack # <<>> =>
          \A k \in DOMAIN top.opts.f : top.opts.f[k]
    /\ Len(helps) >= 2 =>
          /\ status # "panic"
          /\ helps[2].lines = helps[1].lines

\* the four rules of a command name
NameRules(name) ==
    /\ \A i \in DOMAIN name : name[i] \in Lower \cup {"-"}
    /\ name # <<>>
    /\ Cardinality({i \in DOMAIN name : name[i] = "-"}) <= 2
    /\ ~ (name # <<>> /\ name[1] = "-")
    /\ ~ (name # <<>> /\ name[Len(name)] = "-")

\* C8, as claimed: cmd(name, _) fails exactly when name breaks one of the
\* four rules; the empty name is rejected.
C8_CmdRejectsExactlyMalformed ==
    status # "build" => (status = "panic" <=> ~ NameRules(decl.cmds[1]))

\* a panic of one of the builder's assertions
BuilderPanic == status = "panic" /\ panic.kind \in {"cmd", "flag", "assert"}

\* the declaration d holds a name cmd() rejects or a flag flag() rejects
Malformed(d) ==
    \/ \E i \in DOMAIN d.cmds : ~ cmd_accepts(d.cmds[i])
    \/ d.flag # None /\ ~ flag_accepts(d.flag[1])

\* C9, as claimed: every malformed command name or flag character of the
\* tree, also one in a subtree a deferred constructor produces, fails at
\* build time, before the first argument is examined, never during
\* dispatch or help rendering.
C9_MalformedFailsAtBuild ==
    BuilderPanic => panic.phase = "build" /\ panic.pos = 0

\* C9, amended: a malformed name or flag of the root level fails in main
\* before any argument is examined and before anything is printed; one in
\* the subtree of a command fails when that command's constructor is
\* called, by dispatch into the command or by the help of the level that
\* declares it; no level with a malformed name is ever dispatched on.
C9_MalformedFailsWhenEvaluated ==
    /\ status # "build" /\ Malformed(decl) =>
          /\ BuilderPanic
          /\ panic.phase = "build"
          /\ pos = 0 /\ out = <<>> /\ handled = <<>> /\ ctors = <<>>
          /\ levels = <<>>
    /\ BuilderPanic /\ panic.phase # "build" =>
          /\ panic.phase \in {"dispatch", "help"}
          /\ ctors # <<>>
          /\ ctors[Len(ctors)] \in
                {Append(last.opts.help, k) : k \in DOMAIN last.opts.cmds}
          /\ panic.level = last.opts.help
    /\ \A i \in DOMAIN levels : \A k \in DOMAIN levels[i].opts.cmds :
          cmd_accepts(levels[i].opts.cmds[k])

C9_Witness ==
    /\ BuilderPanic
    /\ panic.phase = "dispatch"
    /\ panic.kind = "cmd"
    /\ panic.pos = 1
    /\ Len(levels) = 1
    /\ ~ Malformed(decl)

\* the constructors of the commands of level i called so far
CtorsOf(i) ==
    SelectSeq(ctors, LAMBDA id :
        /\ Len(id) = Len(levels[i].opts.help) + 1
        /\ SubSeq(id, 1, Len(id) - 1) = levels[i].opts.help)

\* the earliest declared command of level i named by its argument
Earliest(i) ==
    CHOOSE k \in Named(i, argv[i]) : \A j \in Named(i, argv[i]) : k <= j

\* of the commands of level i named by its argument only the earliest
\* was constructed, and it was entered
OnlyEarliestEntered(i) ==
    /\ CtorsOf(i) = <<Append(levels[i].opts.help, Earliest(i))>>
    /\ \/ status = "panic" /\ Len(levels) = i
       \/ /\ Len(levels) > i
          /\ levels[i + 1].opts.help = Append(levels[i].opts.help, Earliest(i))

\* C10, as claimed: for a token that is the name of two or more commands
\* of a level, only the earliest declared one's constructor is called and
\* its subtree dispatched.
C10_EarliestOfAnyName ==
    \A i \in 1..Len(levels) :
        Offered(i) /\ Cardinality(Named(i, argv[i])) >= 2
        => OnlyEarliestEntered(i)

\* C10, amended: the same for a token that is not a help token.
C10_EarliestWins ==
    \A i \in 1..Len(levels) :
        /\ Offered(i)
        /\ Cardinality(Named(i, argv[i])) >= 2
        /\ ~ is_help(argv[i], FALSE)
        => OnlyEarliestEntered(i)

C10_Witness ==
    /\ status = "done"
    /\ Len(levels) = 2
    /\ levels[1].opts.cmds = << <<"a">>, <<"a">> >>
    /\ argv[1] = <<"a">>
    /\ ctors = << <<1>> >>

\* has_fields() of the root level, as execute_with computes it
RootHasFields == has_fields(levels[1].opts, Len(levels[1].opts.cmds))

\* C11, as claimed: has_fields() is true exactly when the level declared
\* field(); at such a level a bare `help` is not a help request and a
\* command name without `--` enters no command, while at a level without
\* fields `help` and `--help` both render help.  Stated of the root level.
C11_FieldsChangeHelpTokens ==
    levels # <<>> =>
        /\ RootHasFields = decl.field
        /\ decl.field /\ Offered(1) /\ argv[1] = Str_help => helps = <<>>
        /\ decl.field /\ Offered(1) /\ Named(1, argv[1]) # {} => ctors = <<>>
        /\ ~ decl.field /\ Offered(1) /\ Len(argv) = 1
             /\ argv[1] \in {Str_help, Str_dashdashhelp} => Len(helps) = 1

\* the hints printed so far
Hints == SelectSeq(out, LAMBDA l : l.k = "try")

\* C12, as claimed: every unexpected-argument report, at whatever depth,
\* names a token of the argument vector and, in its hint, the program name.
C12_HintNamesProgram ==
    /\ \A j \in DOMAIN Errors : \E i \in DOMAIN argv : Errors[j].v = argv[i]
    /\ \A j \in DOMAIN Hints : Hints[j].v = Str_prog

\* C13: when a help token taken by a level is followed by another token,
\* no help is rendered, the token after the help token is the one reported
\* as unexpected, nothing after it is taken and no handler is invoked.
C13_TokenAfterHelpReported ==
    \A j \in DOMAIN offered :
        LET i == offered[j].at
        IN  is_help(argv[i], FALSE) /\ i < Len(argv) =>
                /\ helps = <<>>
                /\ Errors = <<Line("error", argv[i + 1])>>
                /\ Len(Hints) = 1
                /\ handled = <<>>
                /\ j = Len(offered)
                /\ pos = i + 1
                /\ status # "panic"

C13_Witness ==
    /\ status = "done"
    /\ argv = <<Str_dashdashhelp, <<"a">>>>
    /\ levels[1].cmd_fn # None
    /\ Named(1, <<"a">>) # {}
    /\ Errors = <<Line("error", <<"a">>)>>

\* C14: a token that is not valid text, taken by a level, is no help
\* request and enters no command of the level: it is reported as the
\* unexpected argument, nothing panics and no later token is taken.
C14_InvalidTextUnmatched ==
    \A j \in DOMAIN offered :
        LET i == offered[j].at
        IN  to_str(argv[i]) = None =>
                /\ j = Len(offered)
                /\ offered[j].level = last.opts.help
                /\ CtorsOf(Len(levels)) = <<>>
                /\ helps = <<>>
                /\ Errors = <<Line("error", argv[i])>>
                /\ status # "panic"

C14_Witness ==
    /\ status = "done"
    /\ argv = << <<"a">>, <<BadByte>> >>
    /\ Len(levels) = 2
    /\ Len(last.opts.cmds) = 1
    /\ Errors = <<Line("error", <<BadByte>>)>>

Str_dashv == <<"-", "v">>

\* C15, as claimed: at a level that declared flag(v) and a handler, the
\* token `-v` is not reported as unexpected and the handler reads
\* flag(v) = true; a flag that was not supplied reads false.  Stated of the
\* root level.
C15_DeclaredFlagAccepted ==
    status = "done" /\ decl.flag = Some("v") /\ decl.run =>
        /\ argv = <<Str_dashv>> =>
              /\ Errors = <<>>
              /\ handled = << <<>> >>
              /\ Opts_flag(levels[1].opts, "v")
        /\ argv = <<>> =>
              /\ handled = << <<>> >>
              /\ ~ Opts_flag(levels[1].opts, "v")

\* the argument j taken by the loops was no help request and matched no
\* command of the level that took it
Unmatched(j) ==
    LET lv == levels[j]
        arg == argv[offered[j].at]
    IN  /\ ~ is_help(arg, FALSE)
        /\ \A k \in DOMAIN lv.opts.cmds : ~ cmd_matches(arg, FALSE, lv.opts.cmds[k])

\* C16: the arguments are taken strictly left to right, each by one level
\* only; a level entered by a match is given the cursor right behind the
\* matched argument; and branch() on an argument that matches nothing hands
\* the cursor back where it was, right behind that argument.
C16_CursorLeftToRight ==
    /\ Len(offered) <= Len(levels)
    /\ \A j \in DOMAIN offered :
          /\ offered[j].at = j
          /\ offered[j].level = levels[j].opts.help
          /\ j <= pos
    /\ \A j, k \in DOMAIN offered : j # k => offered[j].at # offered[k].at
    /\ \A i \in 2..Len(levels) :
          /\ i - 1 \in DOMAIN offered
          /\ levels[i].args = offered[i - 1].at
    /\ \A j \in DOMAIN offered : Unmatched(j) => pos = offered[j].at

C16_Witness ==
    /\ status = "done"
    /\ Len(levels) = 2
    /\ levels[2].args = 1
    /\ Len(offered) = 2
    /\ Unmatched(2)
    /\ Len(levels[2].opts.cmds) = 1
    /\ pos = 2

\* C17: once an unexpected argument has been reported, no step of the run
\* takes or matches another argument, calls a constructor, enters a level
\* or prints anything more, whatever the later arguments are.
C17_MismatchEndsRun ==
    [][Errors # <<>> =>
          /\ pos' = pos
          /\ offered' = offered
          /\ ctors' = ctors
          /\ levels' = levels
          /\ helps' = helps
          /\ out' = out]_vars

C17_Witness ==
    /\ status = "done"
    /\ argv = <<Str_dashv, <<"a">>>>
    /\ Named(1, <<"a">>) # {}
    /\ Errors = <<Line("error", Str_dashv)>>
    /\ pos = 1
    /\ ctors = <<>>

\* the lines of a render after its `Commands:` line, without the empty
\* line that ends it
CommandList(h) ==
    LET at == CHOOSE i \in DOMAIN h.lines : h.lines[i].k = "Commands:"
    IN  SubSeq(h.lines, at + 1, Len(h.lines) - 1)

\* the command list of level lv as claimed: the synthetic entry, `--help`
\* alone when the level declared field(), then the commands oldest first,
\* each with the description of its own subtree
ListsOldestFirst(list, lv, fielded) ==
    /\ Len(list) = Len(lv.opts.cmds) + 1
    /\ list[1] = Line(IF fielded THEN "--help" ELSE "help, --help", <<>>)
    /\ \A k \in DOMAIN lv.opts.cmds :
          /\ list[k + 1].k = "cmd"
          /\ list[k + 1].v[1] \in {lv.opts.cmds[k], Str_dashdash \o lv.opts.cmds[k]}
          /\ list[k + 1].v[2] = Append(lv.opts.help, k)

\* a render of level lv called the constructor of each of its commands and
\* no constructor deeper in the tree was called
CalledOwnCommandsOnly(lv) ==
    /\ {Append(lv.opts.help, k) : k \in DOMAIN lv.opts.cmds}
          \subseteq {ctors[i] : i \in DOMAIN ctors}
    /\ \A i \in DOMAIN ctors : Len(ctors[i]) <= Len(lv.opts.help) + 1

\* C18, as claimed: the command list of a help render starts with the
\* synthetic help entry (`help, --help` at a level without fields, `--help`
\* at a level that declared field()), followed by the level's commands in
\* declaration order, each with its subtree's description; the render calls
\* the constructor of every command of the level and of none deeper.
\* Stated of the root level.
C18_CommandList ==
    Len(levels) = 1 /\ helps # <<>> /\ helps[1].whole =>
        /\ ListsOldestFirst(CommandList(helps[1]), levels[1], decl.field)
        /\ CalledOwnCommandsOnly(levels[1])

\* the arguments that entered a command, as positions of the argument vector
MatchedTokens ==
    {offered[j].at : j \in {i \in DOMAIN offered :
                              /\ ~ is_help(argv[offered[i].at], FALSE)
                              /\ ~ Unmatched(i)}}

\* the nesting of execute_with calls is at most one more than the number
\* of arguments that entered a command, which is at most the number of
\* commands declared along the path
DepthBound ==
    /\ Len(stack) <= 1 + Cardinality(MatchedTokens)
    /\ Cardinality(MatchedTokens) <= Len(argv)
    /\ stack # <<>> => Len(stack) <= 1 + Declared(stack)

\* C19: every run ends, and the depth of nested execute_with calls never
\* exceeds one plus the number of command tokens matched.
C19_TerminatesWithinDepth == []DepthBound /\ <>Ended

C19_Witness ==
    /\ Len(stack) = 3
    /\ top.pc = "after"
    /\ Cardinality(MatchedTokens) = 2

\* C20: a run that ends has rendered help, reported an unexpected argument
\* or invoked a handler; in a run help is rendered at most once, at most
\* one argument is reported, at most one handler is invoked, and help comes
\* with neither a report nor a handler; no level's loop takes a second
\* argument (Branch::Skip is never produced).
C20_OneOutcome ==
    /\ status = "done" => helps # <<>> \/ Errors # <<>> \/ handled # <<>>
    /\ Len(helps) <= 1
    /\ Len(Errors) <= 1
    /\ Len(handled) <= 1
    /\ helps # <<>> => Errors = <<>> /\ handled = <<>>
    /\ \A j, k \in DOMAIN offered :
          j # k => offered[j].level # offered[k].level

C20_Witness ==
    /\ status = "done"
    /\ Len(levels) = 2
    /\ Len(offered) = 2
    /\ Len(Errors) = 1
    /\ handled = <<>>
    /\ helps = <<>>

====
